---- MODULE Spec2Model ----
(***************************************************************************)
(* Model of the voxel-engine core of wgpu-voxel-engine:                    *)
(*   - Chunk (src/src/terrain/chunk.rs): new, get_block, set_block,        *)
(*     visibility_graph, raymarch;                                         *)
(*   - the chunk mesh generators (src/src/render/chunk_meshing.rs):        *)
(*     mesh_culled, mesh_greedy, add_face and the six FaceDir policies.    *)
(*                                                                         *)
(* Numbers.  The chunk edge is CHUNK_SIZE cells (32 in the program, a      *)
(* small bound here).  f32 ray quantities are fixed-point integers in      *)
(* units of EPS (1e-3), so 1.0 is EPS_RECIP units; ray directions have     *)
(* components in {-1, 0, 1}, for which every product and quotient of       *)
(* raymarch is exact on that grid.  Inf stands for f32 +infinity.          *)
(***************************************************************************)
EXTENDS Integers, Sequences, FiniteSets, TLC

\* ---------------------------------------------------------------- bounds

\* edge length of a chunk in cells (the program uses 32)
CHUNK_SIZE == 2

\* number of Chunk::set_block calls made on one chunk
MaxSets == 2

\* ------------------------------------------------------------- constants

\* EPS = 1e-3: one fixed-point unit is EPS, so 1.0 is EPS_RECIP units
EPS_RECIP == 1000

EPS == 1

One == EPS_RECIP

\* f32 +infinity: larger than every finite distance of the model
Inf == EPS_RECIP * EPS_RECIP * EPS_RECIP

BLOCK_AIR == 0

CHUNK_SIZE_SQUARED == CHUNK_SIZE * CHUNK_SIZE

CHUNK_SIZE_CUBED == CHUNK_SIZE * CHUNK_SIZE * CHUNK_SIZE

\* Option<T>: None is the empty tuple, Some(x) the one-element tuple
None == <<>>

Some(x) == <<x>>

\* --------------------------------------------------------------- vectors

Coords == 0 .. (CHUNK_SIZE - 1)

LocalPositions == Coords \X Coords \X Coords

VecSub(a, b) == <<a[1] - b[1], a[2] - b[2], a[3] - b[3]>>

VecAdd(a, b) == <<a[1] + b[1], a[2] + b[2], a[3] + b[3]>>

Min2(a, b) == IF a <= b THEN a ELSE b

Max2(a, b) == IF a >= b THEN a ELSE b

\* Size3::splat(CHUNK_SIZE).contains_ivec3
contains_ivec3(p) == \A i \in 1 .. 3 : 0 <= p[i] /\ p[i] < CHUNK_SIZE

\* mutant: the z stride is the row stride
uvec3_to_chunk_index_row_stride(p) == CHUNK_SIZE * p[3] + CHUNK_SIZE * p[2] + p[1]

\* linear index of a local position, x fastest-varying
uvec3_to_chunk_index(p) == (CHUNK_SIZE * CHUNK_SIZE) * p[3] + CHUNK_SIZE * p[2] + p[1]

\* -------------------------------------------------------- block registry

\* face directions, in the order the generators sweep them
FaceDirs == <<"PosX", "PosY", "PosZ", "NegX", "NegY", "NegZ">>

DirSet == {FaceDirs[i] : i \in 1 .. Len(FaceDirs)}

\* a synthetic registry: air, a cube with one texture, a cube with
\* per-face textures, and a model with faces in the positive directions only
BlockIds == 0 .. 3

\* BLOCKS[id].model.face(dir): None, or Some(texture index of the face)
face_of(id, dir) ==
    CASE id = 0 -> None
      [] id = 1 -> Some(0)
      [] id = 2 -> (CASE dir = "PosY" -> Some(1)
                      [] dir = "NegY" -> Some(2)
                      [] OTHER -> Some(3))
      [] OTHER -> IF dir \in {"PosX", "PosY", "PosZ"} THEN Some(4) ELSE None

\* ----------------------------------------------------------------- state

\* call: the last Chunk::get_block or Chunk::set_block call and what it returned
VARIABLES chunk, panicked, sets, ray, mesher, call

vars == <<chunk, panicked, sets, ray, mesher, call>>

\* ------------------------------------------------------ visibility graph

OPPOSITE(dir) ==
    CASE dir = "PosX" -> "NegX"
      [] dir = "PosY" -> "NegY"
      [] dir = "PosZ" -> "NegZ"
      [] dir = "NegX" -> "PosX"
      [] dir = "NegY" -> "PosY"
      [] OTHER -> "PosZ"

\* mutant: every direction is swept like a positive one
NEGATIVE_never(dir) == FALSE

\* FaceDir::NEGATIVE
NEGATIVE(dir) == dir \in {"NegX", "NegY", "NegZ"}

\* FaceDir::rotate_uvec3: (tangent U, tangent V, depth) to (x, y, z)
rotate_uvec3(dir, v) ==
    CASE dir \in {"PosX", "NegX"} -> <<v[3], v[2], v[1]>>
      [] dir \in {"PosY", "NegY"} -> <<v[2], v[3], v[1]>>
      [] OTHER -> v

\* the cells of the boundary plane of the chunk on the side of dir
BoundaryPlane(dir) ==
    {rotate_uvec3(dir, <<u, v, IF NEGATIVE(dir) THEN 0 ELSE CHUNK_SIZE - 1>>) :
        u \in Coords, v \in Coords}

\* VisibilityGraph::compute: direction dir is opaque iff every cell of its
\* boundary plane has a face in direction dir
VisibilityGraph_compute(blocks) ==
    [dir \in DirSet |->
        \A p \in BoundaryPlane(dir) :
            face_of(blocks[uvec3_to_chunk_index(p)], dir) # None]

\* ----------------------------------------------------------------- chunk

Cells == 0 .. (CHUNK_SIZE_CUBED - 1)

\* mutant: the visibility graph is left at all-false instead of computed
Chunk_new_graph_not_computed(pos, blocks) ==
    [pos |-> pos, blocks |-> blocks, visibility_graph |-> [dir \in DirSet |-> FALSE]]

\* Chunk::new
Chunk_new(pos, blocks) ==
    [pos |-> pos, blocks |-> blocks, visibility_graph |-> VisibilityGraph_compute(blocks)]

\* a chunk filled with one block type
Uniform(b) == [i \in Cells |-> b]

\* ChunkBlockStorage::get_block on an in-range position
get_block(c, p) == c.blocks[uvec3_to_chunk_index(p)]

\* Chunk::visibility_graph
visibility_graph(c) == c.visibility_graph

\* coordinates a caller may pass to get_block and set_block: the first and the
\* last of the chunk and the first past the edge
CallCoords == {0, CHUNK_SIZE - 1, CHUNK_SIZE}

CallPositions == CallCoords \X CallCoords \X CallCoords

RayIdle == [pc |-> "idle"]

MesherIdle == [pc |-> "idle"]

\* ChunkBlockStorage::get_block with its bounds check: None stands for the panic
get_block_checked(c, p) ==
    IF \A i \in 1 .. 3 : 0 <= p[i] /\ p[i] < CHUNK_SIZE
        THEN Some(get_block(c, <<p[1], p[2], p[3]>>))
        ELSE None

NoCall == [op |-> "none", pos |-> <<0, 0, 0>>, new_id |-> BLOCK_AIR, ret |-> None]

\* a Chunk::get_block call: returns the block, or panics out of range
get_block_call(p) ==
    /\ ~panicked
    /\ LET read == get_block_checked(chunk, p)
       IN  /\ panicked' = (read = None)
           /\ call' = [op |-> "get_block", pos |-> p, new_id |-> BLOCK_AIR, ret |-> read]
    /\ UNCHANGED <<chunk, sets, ray, mesher>>

\* mutant: only the linear index is checked against the length of the array
set_block_index_checked(p, new_id) ==
    /\ ~panicked
    /\ sets < MaxSets
    /\ sets' = sets + 1
    /\ IF uvec3_to_chunk_index(p) \in Cells
         THEN /\ chunk' = [chunk EXCEPT !.blocks[uvec3_to_chunk_index(p)] = new_id]
              /\ panicked' = FALSE
         ELSE /\ chunk' = chunk
              /\ panicked' = TRUE
    /\ call' = [op |-> "set_block", pos |-> p, new_id |-> new_id, ret |-> None]
    /\ UNCHANGED <<ray, mesher>>

\* Chunk::set_block: panics out of range, else overwrites the one cell
set_block(p, new_id) ==
    /\ ~panicked
    /\ sets < MaxSets
    /\ sets' = sets + 1
    /\ IF contains_ivec3(p)
         THEN /\ chunk' = [chunk EXCEPT !.blocks[uvec3_to_chunk_index(p)] = new_id]
              /\ panicked' = FALSE
         ELSE /\ chunk' = chunk
              /\ panicked' = TRUE
    /\ call' = [op |-> "set_block", pos |-> p, new_id |-> new_id, ret |-> None]
    /\ UNCHANGED <<ray, mesher>>

ChunkPositions == {<<0, 0, 0>>, <<1, 0, -1>>}

Init ==
    /\ \E b \in BlockIds, pos \in ChunkPositions : chunk = Chunk_new(pos, Uniform(b))
    /\ panicked = FALSE
    /\ sets = 0
    /\ call = NoCall
    /\ ray = RayIdle
    /\ mesher = MesherIdle

SetBlock == \E p \in CallPositions, id \in BlockIds : set_block(p, id)

GetBlock == \E p \in CallPositions : get_block_call(p)

Next == SetBlock \/ GetBlock

Spec == Init /\ [][Next]_vars

\* ------------------------------------------------------------- raymarch

\* f32 floor of a fixed-point value, as a cell coordinate
Floor(x) == x \div One

\* glam fract_gl: x - floor(x), in [0, 1)
fract_gl(x) == x - One * Floor(x)

\* ray_direction.map(|c| if c >= 0.0 { 1.0 } else { 0.0 })
dir_step(c) == IF c >= 0 THEN One ELSE 0

\* x * (1 / c) for a direction component c in {-1, 0, 1}; 1/0 is +infinity,
\* and x is positive whenever c = 0 (x = 1 - fract)
MulRecip(x, c) ==
    CASE c > 0 -> x \div c
      [] c < 0 -> (0 - x) \div (0 - c)
      [] OTHER -> IF x > 0 THEN Inf ELSE 0 - Inf

\* a + b on finite values and +infinity
AddF(a, b) == IF a >= Inf \/ b >= Inf THEN Inf ELSE a + b

\* ray_origin + ray_direction * t
ray_pos_at(r) == [i \in 1 .. 3 |-> r.ray_origin[i] + r.ray_direction[i] * r.t]

\* ray_pos.floor().as_ivec3()
block_pos_at(r) == [i \in 1 .. 3 |-> Floor(ray_pos_at(r)[i])]

\* (dir_step - ray_pos.fract_gl()) * dir_recip
deltas(r) ==
    [i \in 1 .. 3 |->
        MulRecip(dir_step(r.ray_direction[i]) - fract_gl(ray_pos_at(r)[i]),
                 r.ray_direction[i])]

\* Vec3::min_element
min_element(v) == Min2(v[1], Min2(v[2], v[3]))

\* mutant: the step is not clamped to EPS
step_length_unclamped(r) == min_element(deltas(r))

\* mutant: the step is the largest delta
step_length_largest(r) == Max2(Max2(deltas(r)[1], Max2(deltas(r)[2], deltas(r)[3])), EPS)

\* deltas.min_element().max(EPS): the amount t advances by
step_length(r) == Max2(min_element(deltas(r)), EPS)

\* mutant: only the upper edge of the chunk is checked
escaped_upper_only(block_pos) == ~(\A i \in 1 .. 3 : block_pos[i] < CHUNK_SIZE)

\* !Size3::splat(CHUNK_SIZE).contains_ivec3(block_pos): the ray left the chunk
escaped(block_pos) == ~contains_ivec3(block_pos)

\* mutant: the subtraction is the other way round
hit_normal_reversed(c, r, block_pos) ==
    IF r.previous_block_pos # None
        THEN Some(VecSub(block_pos, r.previous_block_pos[1]))
        ELSE IF r.previous_chunk_pos # None
            THEN Some(VecSub(r.previous_chunk_pos[1], c.pos))
            ELSE None

\* mutant: the previous chunk is preferred to the previously sampled voxel
hit_normal_chunk_first(c, r, block_pos) ==
    IF r.previous_chunk_pos # None
        THEN Some(VecSub(r.previous_chunk_pos[1], c.pos))
        ELSE IF r.previous_block_pos # None
            THEN Some(VecSub(r.previous_block_pos[1], block_pos))
            ELSE None

\* mutant: no fallback to the previous chunk
hit_normal_no_fallback(c, r, block_pos) ==
    IF r.previous_block_pos # None
        THEN Some(VecSub(r.previous_block_pos[1], block_pos))
        ELSE None

\* the normal of a hit at block_pos
hit_normal(c, r, block_pos) ==
    IF r.previous_block_pos # None
        THEN Some(VecSub(r.previous_block_pos[1], block_pos))
        ELSE IF r.previous_chunk_pos # None
            THEN Some(VecSub(r.previous_chunk_pos[1], c.pos))
            ELSE None

\* the state of a raymarch call on entry to its loop
raymarch_enter(origin, direction, prev, maxd) ==
    [pc |-> "loop", ray_origin |-> origin, ray_direction |-> direction,
     previous_chunk_pos |-> prev, maximum_distance |-> maxd,
     t |-> 0, previous_block_pos |-> None, result |-> None, sampled |-> <<>>]

\* one iteration of `while t < maximum_distance`
raymarch_iteration ==
    /\ ray.pc = "loop"
    /\ ray.t < ray.maximum_distance
    /\ LET p == block_pos_at(ray)
           block_pos == <<p[1], p[2], p[3]>>
           read == get_block_checked(chunk, block_pos)
       IN  IF escaped(block_pos)
             THEN \* escaped chunk; no intersection
                  /\ ray' = [ray EXCEPT !.pc = "done", !.result = None]
                  /\ UNCHANGED panicked
             ELSE IF read = None
               THEN \* get_block panicked
                  /\ ray' = [ray EXCEPT !.pc = "done",
                                        !.sampled = Append(@, block_pos)]
                  /\ panicked' = TRUE
               ELSE IF read[1] # BLOCK_AIR
                 THEN \* hit a block
                  /\ ray' = [ray EXCEPT
                         !.pc = "done",
                         !.sampled = Append(@, block_pos),
                         !.result = Some([local_hit_pos |-> block_pos,
                                          hit_normal |-> hit_normal(chunk, ray, block_pos)])]
                  /\ UNCHANGED panicked
                 ELSE \* advance to the next block position
                  /\ ray' = [ray EXCEPT
                         !.sampled = Append(@, block_pos),
                         !.t = AddF(@, step_length(ray)),
                         !.previous_block_pos = Some(block_pos)]
                  /\ UNCHANGED panicked
    /\ UNCHANGED <<chunk, sets, mesher, call>>

\* the loop condition fails: return None
raymarch_finish ==
    /\ ray.pc = "loop"
    /\ ~(ray.t < ray.maximum_distance)
    /\ ray' = [ray EXCEPT !.pc = "done", !.result = None]
    /\ UNCHANGED <<chunk, panicked, sets, mesher, call>>

\* ray inputs
OriginCoords == {0 - (One \div 2), 0, One - EPS, One}

DirComponents == {-1, 0, 1}

MaxDistances == {0 - One, 0, One + (One \div 2), 50 * One}

\* a block array that is uniform but for at most one cell
UniformWithOne(b, i, c) == [Uniform(b) EXCEPT ![i] = c]

\* chunk contents for ray casts: air with at most one solid voxel
RayBlocks == {UniformWithOne(BLOCK_AIR, i, c) : i \in Cells, c \in {BLOCK_AIR, 1}}

RayChunkPos == <<1, 0, -1>>

RayPrevious == {None, Some(<<1, 0, -2>>)}

InitRay ==
    /\ \E blocks \in RayBlocks : chunk = Chunk_new(RayChunkPos, blocks)
    /\ panicked = FALSE
    /\ sets = 0
    /\ call = NoCall
    /\ \E origin \in OriginCoords \X OriginCoords \X OriginCoords,
          direction \in DirComponents \X DirComponents \X DirComponents,
          prev \in RayPrevious, maxd \in MaxDistances :
            ray = raymarch_enter(origin, direction, prev, maxd)
    /\ mesher = MesherIdle

NextRay == raymarch_iteration \/ raymarch_finish

SpecRay == InitRay /\ [][NextRay]_vars

\* raymarch is a sequential loop: an enabled iteration or return is taken
SpecRayFair == SpecRay /\ WF_vars(NextRay)

\* ------------------------------------------------- raymarch: vocabulary

\* the position is a cell of the chunk
InChunk(p) == \A i \in 1 .. 3 : p[i] \in Coords

RayDone == ray.pc = "done"

RayHit == RayDone /\ ray.result # None

\* the cell that contains the ray origin
OriginCell == <<ray.ray_origin[1] \div One, ray.ray_origin[2] \div One, ray.ray_origin[3] \div One>>

\* the chunk is air but for one non-air voxel, at q
OnlySolidAt(q) ==
    \A p \in LocalPositions :
        (chunk.blocks[p[1] + CHUNK_SIZE * p[2] + CHUNK_SIZE * CHUNK_SIZE * p[3]] # BLOCK_AIR) <=> (p = q)

IsAir(p) == chunk.blocks[p[1] + CHUNK_SIZE * p[2] + CHUNK_SIZE * CHUNK_SIZE * p[3]] = BLOCK_AIR

\* exactly one component is +1 or -1 and the other two are 0
UnitAxis(n) ==
    /\ \A i \in 1 .. 3 : n[i] \in {-1, 0, 1}
    /\ Cardinality({i \in 1 .. 3 : n[i] # 0}) = 1

\* the voxel that contains the ray for every parameter strictly between k and k + 1
CellDuring(k) ==
    [i \in 1 .. 3 |->
        CASE ray.ray_direction[i] > 0 -> (ray.ray_origin[i] + k) \div One
          [] ray.ray_direction[i] < 0 -> (ray.ray_origin[i] - k - 1) \div One
          [] OTHER -> ray.ray_origin[i] \div One]

\* the parameters at which the ray can change voxel, up to one chunk diagonal
Breaks ==
    {0} \cup {m * One + ((0 - ray.ray_direction[i] * ray.ray_origin[i]) % One) :
                 m \in 0 .. (CHUNK_SIZE + 1),
                 i \in {j \in 1 .. 3 : ray.ray_direction[j] # 0}}

\* the ray is aimed along +Z from below at the only solid voxel q of its column
AimedUpAt(q) ==
    /\ OnlySolidAt(q)
    /\ ray.ray_direction = <<0, 0, 1>>
    /\ OriginCell[1] = q[1] /\ OriginCell[2] = q[2] /\ OriginCell[3] < q[3]
    /\ q[3] * One - ray.ray_origin[3] < ray.maximum_distance

\* C4 as stated: a ray that starts outside the chunk and points at the only
\* solid voxel reports that voxel, with normal (0,0,-1) when aimed along +Z
C4_OutsideRayReportsVoxel ==
    \A q \in LocalPositions :
        (RayDone /\ ~InChunk(OriginCell) /\ AimedUpAt(q))
            => ray.result = Some([local_hit_pos |-> q, hit_normal |-> Some(<<0, 0, -1>>)])

\* C4 amended: a ray aimed along +Z at the only solid voxel from an air voxel
\* of the chunk below it reports that voxel with normal (0,0,-1); a ray whose
\* origin is outside the chunk returns None without sampling any voxel
C4_InsideRayReportsVoxel ==
    /\ \A q \in LocalPositions :
        (RayDone /\ InChunk(OriginCell) /\ AimedUpAt(q))
            => ray.result = Some([local_hit_pos |-> q, hit_normal |-> Some(<<0, 0, -1>>)])
    /\ (RayDone /\ ~InChunk(OriginCell)) => (ray.result = None /\ ray.sampled = <<>>)

C4_Witness ==
    \E q \in LocalPositions :
        RayDone /\ ~InChunk(OriginCell) /\ AimedUpAt(q) /\ ray.result = None

\* the voxel sampled just before the hit voxel
PrevSampled == ray.sampled[Len(ray.sampled) - 1]

HitAfterSample == RayHit /\ Len(ray.sampled) >= 2

\* C5 as stated: the normal of a hit that follows a sampled voxel is the hit
\* position minus the previously sampled position
C5_NormalIsHitMinusPrevious ==
    HitAfterSample =>
        ray.result[1].hit_normal = Some(VecSub(ray.result[1].local_hit_pos, PrevSampled))

\* C5 amended: the normal of a hit that follows a sampled voxel is the
\* previously sampled position minus the hit position
C5_NormalIsPreviousMinusHit ==
    HitAfterSample =>
        /\ ray.result[1].local_hit_pos = ray.sampled[Len(ray.sampled)]
        /\ ray.result[1].hit_normal = Some(VecSub(PrevSampled, ray.result[1].local_hit_pos))

C5_Witness == HitAfterSample /\ ray.result[1].hit_normal = Some(<<0, 0, -1>>)

\* C6: a normal derived from sampled voxels is a unit axis vector
C6_NormalIsUnitAxis ==
    HitAfterSample =>
        /\ ray.result[1].hit_normal # None
        /\ UnitAxis(ray.result[1].hit_normal[1])

\* C7: a hit on the very first sample reports the origin voxel; its normal is
\* previous_chunk_pos minus the chunk position when previous_chunk_pos is
\* supplied, and None otherwise
C7_FirstSampleNormal ==
    (RayHit /\ Len(ray.sampled) = 1) =>
        /\ ray.result[1].local_hit_pos = OriginCell
        /\ ray.result[1].hit_normal =
              IF ray.previous_chunk_pos = None
                  THEN None
                  ELSE Some(VecSub(ray.previous_chunk_pos[1], chunk.pos))

C7_Witness ==
    /\ RayHit /\ Len(ray.sampled) = 1
    /\ ray.previous_chunk_pos # None
    /\ ray.result[1].hit_normal = Some(<<0, 0, -1>>)

\* C8: raymarch never looks up a voxel outside the chunk: a sample whose cell
\* is outside returns None before any lookup
C8_NoLookupOutsideChunk ==
    /\ ~panicked
    /\ \A k \in 1 .. Len(ray.sampled) : InChunk(ray.sampled[k])
    /\ (RayDone /\ ray.t < ray.maximum_distance /\ ~InChunk(block_pos_at(ray)))
          => ray.result = None

C8_Witness ==
    /\ RayDone /\ ray.t < ray.maximum_distance /\ ~InChunk(block_pos_at(ray))
    /\ Len(ray.sampled) >= 1

\* the ray of C9: from the chunk origin along +Z through an all-air chunk
StraightUpThroughAir ==
    /\ \A p \in LocalPositions : IsAir(p)
    /\ ray.ray_origin = <<0, 0, 0>>
    /\ ray.ray_direction = <<0, 0, 1>>
    /\ ray.maximum_distance >= CHUNK_SIZE * One

\* C9: in an all-air chunk a ray from (0,0,0) along +Z with a maximum
\* distance of at least the chunk edge samples (0,0,0) .. (0,0,CHUNK_SIZE-1)
\* in increasing z order and then returns None
C9_StraightRayCrossesChunk ==
    (RayDone /\ StraightUpThroughAir) =>
        /\ ray.result = None
        /\ ray.sampled = [k \in 1 .. CHUNK_SIZE |-> <<0, 0, k - 1>>]

C9_Witness == RayDone /\ StraightUpThroughAir /\ Len(ray.sampled) = CHUNK_SIZE

\* C10: for a ray that starts inside the chunk, a hit is the first non-air
\* voxel along the ray (every voxel crossed before it is air), and a non-air
\* voxel crossed below the maximum distance makes the result a hit
C10_FirstSolidAlongRay ==
    (RayDone /\ InChunk(OriginCell)) =>
        /\ RayHit =>
              \A k \in {b \in Breaks : b < ray.t} :
                  InChunk(CellDuring(k)) =>
                      \/ IsAir(CellDuring(k))
                      \/ CellDuring(k) = [i \in 1 .. 3 |-> ray.result[1].local_hit_pos[i]]
        /\ (\E k \in {b \in Breaks : b < ray.maximum_distance} :
               InChunk(CellDuring(k)) /\ ~IsAir(CellDuring(k)))
              => RayHit

FaceDir_vertices_negz_like_posz(dir, size) ==
    CASE dir = "PosX" -> << <<1, 0, size[1]>>, <<1, 0, 0>>, <<1, size[2], 0>>, <<1, size[2], size[1]>> >>
      [] dir = "PosY" -> << <<0, 1, 0>>, <<0, 1, size[1]>>, <<size[2], 1, size[1]>>, <<size[2], 1, 0>> >>
      [] dir = "PosZ" -> << <<0, 0, 1>>, <<size[1], 0, 1>>, <<size[1], size[2], 1>>, <<0, size[2], 1>> >>
      [] dir = "NegX" -> << <<0, 0, 0>>, <<0, 0, size[1]>>, <<0, size[2], size[1]>>, <<0, size[2], 0>> >>
      [] dir = "NegY" -> << <<size[2], 0, 0>>, <<size[2], 0, size[1]>>, <<0, 0, size[1]>>, <<0, 0, 0>> >>
      [] OTHER -> << <<0, 0, 0>>, <<size[1], 0, 0>>, <<size[1], size[2], 0>>, <<0, size[2], 0>> >>

\* FaceDir::vertices(size): the four corner offsets of a quad of this direction
FaceDir_vertices(dir, size) ==
    CASE dir = "PosX" -> << <<1, 0, size[1]>>, <<1, 0, 0>>, <<1, size[2], 0>>, <<1, size[2], size[1]>> >>
      [] dir = "PosY" -> << <<0, 1, 0>>, <<0, 1, size[1]>>, <<size[2], 1, size[1]>>, <<size[2], 1, 0>> >>
      [] dir = "PosZ" -> << <<0, 0, 1>>, <<size[1], 0, 1>>, <<size[1], size[2], 1>>, <<0, size[2], 1>> >>
      [] dir = "NegX" -> << <<0, 0, 0>>, <<0, 0, size[1]>>, <<0, size[2], size[1]>>, <<0, size[2], 0>> >>
      [] dir = "NegY" -> << <<size[2], 0, 0>>, <<size[2], 0, size[1]>>, <<0, 0, size[1]>>, <<0, 0, 0>> >>
      [] OTHER -> << <<size[1], 0, 0>>, <<0, 0, 0>>, <<0, size[2], 0>>, <<size[1], size[2], 0>> >>

INDICES == <<0, 1, 2, 2, 3, 0>>

\* MeshData::empty(); `faces` logs the arguments of every add_face call
MeshData_empty == [vertices |-> <<>>, indices |-> <<>>, faces |-> <<>>]

\* mutant: the first index is taken from the index count
add_face_indices_len(dst, dir, origin, size, texture_index) ==
    LET uvs == << <<0, size[2]>>, <<size[1], size[2]>>, <<size[1], 0>>, <<0, 0>> >>
        first_index == Len(dst.indices)
        offsets == FaceDir_vertices(dir, size)
    IN  [vertices |-> dst.vertices \o
                        [i \in 1 .. 4 |-> [position |-> VecAdd(origin, offsets[i]),
                                           uv |-> uvs[i],
                                           texture_index |-> texture_index]],
         indices |-> dst.indices \o [i \in 1 .. 6 |-> INDICES[i] + first_index],
         faces |-> Append(dst.faces, [dir |-> dir, origin |-> origin, size |-> size,
                                      texture_index |-> texture_index])]

\* add_face::<FaceDir>(dst, origin, size, texture_index)
add_face(dst, dir, origin, size, texture_index) ==
    LET uvs == << <<0, size[2]>>, <<size[1], size[2]>>, <<size[1], 0>>, <<0, 0>> >>
        first_index == Len(dst.vertices)
        offsets == FaceDir_vertices(dir, size)
    IN  [vertices |-> dst.vertices \o
                        [i \in 1 .. 4 |-> [position |-> VecAdd(origin, offsets[i]),
                                           uv |-> uvs[i],
                                           texture_index |-> texture_index]],
         indices |-> dst.indices \o [i \in 1 .. 6 |-> INDICES[i] + first_index],
         faces |-> Append(dst.faces, [dir |-> dir, origin |-> origin, size |-> size,
                                      texture_index |-> texture_index])]

\* ---------------------------------------------------- mesh: mesh_culled

RECURSIVE add_visible_faces_from(_, _, _, _, _, _)

\* the three nested loops of add_visible_faces from flattened iteration k on;
\* `visible` is the flag carried along the current column
add_visible_faces_from(dst, dir, blocks, translation, visible, k) ==
    IF k >= CHUNK_SIZE_CUBED
        THEN dst
        ELSE
            LET pos_parallel_x == k \div CHUNK_SIZE_SQUARED
                pos_parallel_y == (k \div CHUNK_SIZE) % CHUNK_SIZE
                pos_perpendicular == k % CHUNK_SIZE
                vis == IF pos_perpendicular = 0 THEN TRUE ELSE visible
                pos_in_chunk ==
                    rotate_uvec3(dir, <<pos_parallel_x, pos_parallel_y,
                                        IF NEGATIVE(dir)
                                            THEN pos_perpendicular
                                            ELSE (CHUNK_SIZE - 1) - pos_perpendicular>>)
                block_id == blocks[uvec3_to_chunk_index(pos_in_chunk)]
                face == face_of(block_id, dir)
                dst2 == IF face # None /\ vis
                            THEN add_face(dst, dir, VecAdd(pos_in_chunk, translation),
                                          <<1, 1>>, face[1])
                            ELSE dst
            IN  add_visible_faces_from(dst2, dir, blocks, translation,
                                       face_of(block_id, OPPOSITE(dir)) = None, k + 1)

\* add_visible_faces::<FaceDir>(dst, input)
add_visible_faces(dst, dir, blocks, translation) ==
    add_visible_faces_from(dst, dir, blocks, translation, TRUE, 0)

\* ---------------------------------------------------- mesh: mesh_greedy

\* mutant: any two present faces merge, whatever their textures
can_merge_faces_any_present(first, second) == first # None /\ second # None

\* can_merge_faces(first, second)
can_merge_faces(first, second) == first = second

\* mutant: the candidate's visibility is not consulted
consider_merge_candidate_ignoring_visible(blocks, dir, visible, layer_pos, original_face, merge_candidate_u, merge_candidate_v) ==
    LET merge_candidate_pos ==
            rotate_uvec3(dir, <<merge_candidate_u, merge_candidate_v, layer_pos>>)
        merge_candidate_id == blocks[uvec3_to_chunk_index(merge_candidate_pos)]
    IN  << can_merge_faces(Some(original_face), face_of(merge_candidate_id, dir)),
           face_of(merge_candidate_id, OPPOSITE(dir)) = None >>

\* mutant: next_visible is read from the face in the sweep direction
consider_merge_candidate_next_from_face(blocks, dir, visible, layer_pos, original_face, merge_candidate_u, merge_candidate_v) ==
    LET merge_candidate_pos ==
            rotate_uvec3(dir, <<merge_candidate_u, merge_candidate_v, layer_pos>>)
        merge_candidate_index_in_layer == CHUNK_SIZE * merge_candidate_v + merge_candidate_u
        merge_candidate_id == blocks[uvec3_to_chunk_index(merge_candidate_pos)]
        merge_candidate_face == face_of(merge_candidate_id, dir)
        merge_candidate_visible == visible[merge_candidate_index_in_layer]
    IN  << can_merge_faces(Some(original_face), merge_candidate_face)
              /\ merge_candidate_visible,
           face_of(merge_candidate_id, dir) = None >>

\* consider_merge_candidate: <<can_merge, next_visible>>
consider_merge_candidate(blocks, dir, visible, layer_pos, original_face, merge_candidate_u, merge_candidate_v) ==
    LET merge_candidate_pos ==
            rotate_uvec3(dir, <<merge_candidate_u, merge_candidate_v, layer_pos>>)
        merge_candidate_index_in_layer == CHUNK_SIZE * merge_candidate_v + merge_candidate_u
        merge_candidate_id == blocks[uvec3_to_chunk_index(merge_candidate_pos)]
        merge_candidate_face == face_of(merge_candidate_id, dir)
        merge_candidate_visible == visible[merge_candidate_index_in_layer]
    IN  << can_merge_faces(Some(original_face), merge_candidate_face)
              /\ merge_candidate_visible,
           face_of(merge_candidate_id, OPPOSITE(dir)) = None >>

RECURSIVE grow_u_stops_short(_, _, _, _, _, _, _)

\* mutant: the U march never considers the last column
grow_u_stops_short(blocks, dir, layer_pos, original_face, original_v, merge_candidate_u, st) ==
    IF merge_candidate_u >= CHUNK_SIZE - 1
        THEN st
        ELSE
            LET c == consider_merge_candidate(blocks, dir, st.visible, layer_pos,
                                              original_face, merge_candidate_u, original_v)
                merged_index_in_layer == CHUNK_SIZE * original_v + merge_candidate_u
            IN  IF ~c[1]
                    THEN st
                    ELSE grow_u_stops_short(blocks, dir, layer_pos, original_face, original_v,
                                merge_candidate_u + 1,
                                [visible |-> [st.visible EXCEPT ![merged_index_in_layer] = c[2]],
                                 already_merged |->
                                     [st.already_merged EXCEPT ![merged_index_in_layer] = TRUE],
                                 face_size |-> <<st.face_size[1] + 1, st.face_size[2]>>])

RECURSIVE grow_u(_, _, _, _, _, _, _)

\* the U march from merge_candidate_u on; st = [visible, already_merged, face_size]
grow_u(blocks, dir, layer_pos, original_face, original_v, merge_candidate_u, st) ==
    IF merge_candidate_u >= CHUNK_SIZE
        THEN st
        ELSE
            LET c == consider_merge_candidate(blocks, dir, st.visible, layer_pos,
                                              original_face, merge_candidate_u, original_v)
                merged_index_in_layer == CHUNK_SIZE * original_v + merge_candidate_u
            IN  IF ~c[1]
                    THEN st
                    ELSE grow_u(blocks, dir, layer_pos, original_face, original_v,
                                merge_candidate_u + 1,
                                [visible |-> [st.visible EXCEPT ![merged_index_in_layer] = c[2]],
                                 already_merged |->
                                     [st.already_merged EXCEPT ![merged_index_in_layer] = TRUE],
                                 face_size |-> <<st.face_size[1] + 1, st.face_size[2]>>])

RECURSIVE grow_v_partial_rows(_, _, _, _, _, _, _)

\* mutant: the cells of a failing row that precede the first failing cell are
\* marked merged
grow_v_partial_rows(blocks, dir, layer_pos, original_face, original_u, merge_candidate_v, st) ==
    IF merge_candidate_v >= CHUNK_SIZE
        THEN st
        ELSE
            LET row == original_u .. (original_u + st.face_size[1] - 1)
                cand(u) == consider_merge_candidate(blocks, dir, st.visible, layer_pos,
                                                    original_face, u, merge_candidate_v)
                visibility_flags == {u \in row : cand(u)[2]}
                passed == {u \in row : \A u2 \in row : u2 <= u => cand(u2)[1]}
            IN  IF \E u \in row : ~cand(u)[1]
                    THEN [st EXCEPT !.already_merged =
                             [i \in DOMAIN st.already_merged |->
                                 \/ i \in {merge_candidate_v * CHUNK_SIZE + x : x \in passed}
                                 \/ st.already_merged[i]]]
                    ELSE grow_v_partial_rows(blocks, dir, layer_pos, original_face, original_u,
                                merge_candidate_v + 1,
                                [visible |->
                                     [i \in DOMAIN st.visible |->
                                         IF i \in {merge_candidate_v * CHUNK_SIZE + x : x \in row}
                                             THEN (i - merge_candidate_v * CHUNK_SIZE)
                                                      \in visibility_flags
                                             ELSE st.visible[i]],
                                 already_merged |->
                                     [i \in DOMAIN st.already_merged |->
                                         \/ i \in {merge_candidate_v * CHUNK_SIZE + x : x \in row}
                                         \/ st.already_merged[i]],
                                 face_size |-> <<st.face_size[1], st.face_size[2] + 1>>])

RECURSIVE grow_v(_, _, _, _, _, _, _)

\* the V march from row merge_candidate_v on
grow_v(blocks, dir, layer_pos, original_face, original_u, merge_candidate_v, st) ==
    IF merge_candidate_v >= CHUNK_SIZE
        THEN st
        ELSE
            LET row == original_u .. (original_u + st.face_size[1] - 1)
                cand(u) == consider_merge_candidate(blocks, dir, st.visible, layer_pos,
                                                    original_face, u, merge_candidate_v)
                \* bit u of visibility_flags
                visibility_flags == {u \in row : cand(u)[2]}
            IN  IF \E u \in row : ~cand(u)[1]
                    THEN st
                    ELSE grow_v(blocks, dir, layer_pos, original_face, original_u,
                                merge_candidate_v + 1,
                                [visible |->
                                     [i \in DOMAIN st.visible |->
                                         IF i \in {merge_candidate_v * CHUNK_SIZE + x : x \in row}
                                             THEN (i - merge_candidate_v * CHUNK_SIZE)
                                                      \in visibility_flags
                                             ELSE st.visible[i]],
                                 already_merged |->
                                     [i \in DOMAIN st.already_merged |->
                                         \/ i \in {merge_candidate_v * CHUNK_SIZE + x : x \in row}
                                         \/ st.already_merged[i]],
                                 face_size |-> <<st.face_size[1], st.face_size[2] + 1>>])

LayerIndices == 0 .. (CHUNK_SIZE_SQUARED - 1)

\* mutant: the layers are walked in storage order for every direction
layer_pos_of_forward(dir, layer_index) == layer_index

\* position of the layer, moving backwards through the chunk
layer_pos_of(dir, layer_index) ==
    IF NEGATIVE(dir) THEN layer_index ELSE (CHUNK_SIZE - 1) - layer_index

\* mutant: only invisible cells are skipped
skip_cell_invisible_only(original_face, original_visible) == ~original_visible

\* mutant: only cells without a face are skipped
skip_cell_no_face_only(original_face, original_visible) == original_face = None

\* skip if there is no face or the face is invisible
skip_cell(original_face, original_visible) == original_face = None \/ ~original_visible

\* the body of the (original_v, original_u) loop of add_greedy_merged_faces:
\* the new [visible, already_merged, dst]; panic is original_face.unwrap()
\* meeting None
greedy_cell(m, blocks) ==
    LET dir == FaceDirs[m.dir]
        layer_pos == layer_pos_of(dir, m.layer_index)
        original_index == m.original_v * CHUNK_SIZE + m.original_u
        original_pos == rotate_uvec3(dir, <<m.original_u, m.original_v, layer_pos>>)
        original_id == blocks[uvec3_to_chunk_index(original_pos)]
        original_face == face_of(original_id, dir)
        original_visible == m.visible[original_index]
        visible1 == [m.visible EXCEPT
                        ![original_index] = face_of(original_id, OPPOSITE(dir)) = None]
        grown_u == grow_u(blocks, dir, layer_pos, original_face[1], m.original_v,
                          m.original_u + 1,
                          [visible |-> visible1, already_merged |-> m.already_merged,
                           face_size |-> <<1, 1>>])
        grown == grow_v(blocks, dir, layer_pos, original_face[1], m.original_u,
                        m.original_v + 1, grown_u)
    IN  IF m.already_merged[original_index]
            THEN [visible |-> m.visible, already_merged |-> m.already_merged,
                  dst |-> m.greedy, panic |-> FALSE]
            ELSE IF skip_cell(original_face, original_visible)
                THEN [visible |-> visible1, already_merged |-> m.already_merged,
                      dst |-> m.greedy, panic |-> FALSE]
                ELSE IF original_face = None
                    THEN [visible |-> visible1, already_merged |-> m.already_merged,
                          dst |-> m.greedy, panic |-> TRUE]
                    ELSE [visible |-> grown.visible,
                          already_merged |-> grown.already_merged,
                          dst |-> add_face(m.greedy, dir,
                                           VecAdd(original_pos, m.translation),
                                           grown.face_size, original_face[1]),
                          panic |-> FALSE]

\* a mesh_greedy call followed by a mesh_culled call on the same input;
\* `finished` records the last layer swept by mesh_greedy and `visible` as the
\* sweep left it
mesh_enter(translation) ==
    [pc |-> "greedy", translation |-> translation,
     dir |-> 1, layer_index |-> 0, original_v |-> 0, original_u |-> 0,
     visible |-> [i \in LayerIndices |-> TRUE],
     already_merged |-> [i \in LayerIndices |-> FALSE],
     finished |-> None,
     greedy |-> MeshData_empty, culled |-> MeshData_empty]

\* one iteration of the cell loop of add_greedy_merged_faces, and the loop
\* headers that follow it: next cell, next layer (already_merged is reset),
\* next direction (visible is reset), or the end of mesh_greedy
mesh_greedy_step ==
    /\ mesher.pc = "greedy"
    /\ LET r == greedy_cell(mesher, chunk.blocks)
           last_u == mesher.original_u = CHUNK_SIZE - 1
           last_v == last_u /\ mesher.original_v = CHUNK_SIZE - 1
           last_layer == last_v /\ mesher.layer_index = CHUNK_SIZE - 1
           last_dir == last_layer /\ mesher.dir = Len(FaceDirs)
       IN  /\ mesher' = [mesher EXCEPT
               !.greedy = r.dst,
               !.finished = IF last_v /\ ~r.panic
                               THEN Some([dir |-> mesher.dir,
                                          layer_index |-> mesher.layer_index,
                                          visible |-> r.visible])
                               ELSE @,
               !.visible = IF last_layer THEN [i \in LayerIndices |-> TRUE] ELSE r.visible,
               !.already_merged = IF last_v THEN [i \in LayerIndices |-> FALSE]
                                            ELSE r.already_merged,
               !.original_u = IF last_u THEN 0 ELSE @ + 1,
               !.original_v = IF last_v THEN 0 ELSE IF last_u THEN @ + 1 ELSE @,
               !.layer_index = IF last_layer THEN 0 ELSE IF last_v THEN @ + 1 ELSE @,
               !.dir = IF last_dir THEN 1 ELSE IF last_layer THEN @ + 1 ELSE @,
               !.pc = IF r.panic THEN "panicked"
                      ELSE IF last_dir THEN "culled" ELSE "greedy"]
           /\ panicked' = r.panic
    /\ UNCHANGED <<chunk, sets, ray, call>>

\* mutant: the call takes the block array out of the chunk
mesh_culled_step_taking_blocks ==
    /\ mesher.pc = "culled"
    /\ mesher' = [mesher EXCEPT
           !.culled = add_visible_faces(@, FaceDirs[mesher.dir], chunk.blocks,
                                        mesher.translation),
           !.dir = IF mesher.dir = Len(FaceDirs) THEN 1 ELSE @ + 1,
           !.pc = IF mesher.dir = Len(FaceDirs) THEN "done" ELSE "culled"]
    /\ chunk' = [chunk EXCEPT !.blocks = Uniform(BLOCK_AIR)]
    /\ UNCHANGED <<panicked, sets, ray, call>>

\* one add_visible_faces call of mesh_culled
mesh_culled_step ==
    /\ mesher.pc = "culled"
    /\ mesher' = [mesher EXCEPT
           !.culled = add_visible_faces(@, FaceDirs[mesher.dir], chunk.blocks,
                                        mesher.translation),
           !.dir = IF mesher.dir = Len(FaceDirs) THEN 1 ELSE @ + 1,
           !.pc = IF mesher.dir = Len(FaceDirs) THEN "done" ELSE "culled"]
    /\ UNCHANGED <<chunk, panicked, sets, ray, call>>

\* a block array with block lower in the layer z = 0 and upper above it
Layered(lower, upper) == [i \in Cells |-> IF i < CHUNK_SIZE_SQUARED THEN lower ELSE upper]

\* block arrays handed to the generators: a uniform or two-layered fill,
\* with at most one cell replaced
MeshBlocks ==
    {[Layered(lower, upper) EXCEPT ![i] = c] :
        lower \in BlockIds, upper \in BlockIds, i \in Cells, c \in BlockIds}

MeshTranslation == <<CHUNK_SIZE, 0, 0 - CHUNK_SIZE>>

InitMesh ==
    /\ \E blocks \in MeshBlocks : chunk = Chunk_new(<<0, 0, 0>>, blocks)
    /\ panicked = FALSE
    /\ sets = 0
    /\ call = NoCall
    /\ ray = RayIdle
    /\ mesher = mesh_enter(MeshTranslation)

NextMesh == mesh_greedy_step \/ mesh_culled_step

SpecMesh == InitMesh /\ [][NextMesh]_vars

\* ------------------------------------- readers interleaved on one chunk

\* rays cast while the chunk is being meshed
SharedRays ==
    {raymarch_enter(<<0, 0, 0>>, <<1, 0, 0>>, None, One + (One \div 2)),
     raymarch_enter(<<0, 0, 0>>, <<1, 1, 0>>, None, 50 * One),
     raymarch_enter(<<One - EPS, One \div 2, One>>, <<0, -1, -1>>, Some(<<1, 0, -2>>), 50 * One),
     raymarch_enter(<<0 - (One \div 2), 0, 0>>, <<1, 0, 1>>, None, 50 * One)}

\* a raymarch call and a mesh_greedy + mesh_culled call share one chunk
InitShared ==
    /\ \E blocks \in RayBlocks : chunk = Chunk_new(RayChunkPos, blocks)
    /\ panicked = FALSE
    /\ sets = 0
    /\ call = NoCall
    /\ ray \in SharedRays
    /\ mesher = mesh_enter(MeshTranslation)

\* the steps of the two calls in any interleaving
NextShared == raymarch_iteration \/ raymarch_finish \/ mesh_greedy_step \/ mesh_culled_step

SpecShared == InitShared /\ [][NextShared]_vars

\* ------------------------------------------------------ mesh: vocabulary

\* the unit vector of a face direction
DirVector(dir) ==
    CASE dir = "PosX" -> <<1, 0, 0>>
      [] dir = "PosY" -> <<0, 1, 0>>
      [] dir = "PosZ" -> <<0, 0, 1>>
      [] dir = "NegX" -> <<-1, 0, 0>>
      [] dir = "NegY" -> <<0, -1, 0>>
      [] OTHER -> <<0, 0, -1>>

OppositeDir(dir) ==
    CHOOSE d \in DirSet : DirVector(d) = VecSub(<<0, 0, 0>>, DirVector(dir))

\* the tangent axes of a direction: U and V as unit vectors
TangentU(dir) == IF dir \in {"PosZ", "NegZ"} THEN <<1, 0, 0>> ELSE <<0, 0, 1>>

TangentV(dir) == IF dir \in {"PosY", "NegY"} THEN <<1, 0, 0>> ELSE <<0, 1, 0>>

BlockAt(p) == chunk.blocks[p[1] + CHUNK_SIZE * p[2] + CHUNK_SIZE * CHUNK_SIZE * p[3]]

\* the voxels covered by a quad logged by add_face
CoveredVoxels(f) ==
    {[k \in 1 .. 3 |-> f.origin[k] - mesher.translation[k]
                         + i * TangentU(f.dir)[k] + j * TangentV(f.dir)[k]] :
        i \in 0 .. (f.size[1] - 1), j \in 0 .. (f.size[2] - 1)}

\* a mesh decomposed into unit faces: (voxel, direction, texture index)
UnitFaces(mesh) ==
    UNION {{<<p, mesh.faces[n].dir, mesh.faces[n].texture_index>> :
                p \in CoveredVoxels(mesh.faces[n])} : n \in 1 .. Len(mesh.faces)}

\* visibility of the face of voxel p in direction dir by the culled rule
CulledVisible(p, dir) ==
    LET q == [k \in 1 .. 3 |-> p[k] + DirVector(dir)[k]]
    IN  \/ ~InChunk(q)
        \/ face_of(BlockAt(q), OppositeDir(dir)) = None

MeshDone == mesher.pc = "done"

\* C1: mesh_greedy and mesh_culled cover the same set of unit faces
\* (voxel position, face direction, texture index)
C1_GreedyCoversCulledSurface ==
    MeshDone => UnitFaces(mesher.greedy) = UnitFaces(mesher.culled)

C1_Witness ==
    /\ MeshDone
    /\ Len(mesher.greedy.faces) < Len(mesher.culled.faces)
    /\ \E n \in 1 .. Len(mesher.greedy.faces) :
          mesher.greedy.faces[n].size[1] > 1 /\ mesher.greedy.faces[n].size[2] > 1
    /\ \E p \in LocalPositions, d \in DirSet :
          face_of(BlockAt(p), d) # None /\ ~CulledVisible(p, d)

\* C2: every quad of the mesh mesh_greedy returns covers only cells of the chunk whose
\* face in the quad's direction is present with the quad's descriptor and
\* that are visible by the culled rule
C2_MergeSoundness ==
    mesher.pc \in {"culled", "done"} =>
        \A n \in 1 .. Len(mesher.greedy.faces) :
            LET f == mesher.greedy.faces[n]
            IN  \A p \in CoveredVoxels(f) :
                    /\ InChunk(p)
                    /\ face_of(BlockAt(p), f.dir) = Some(f.texture_index)
                    /\ CulledVisible(p, f.dir)

C2_Witness ==
    /\ MeshDone
    /\ \E n \in 1 .. Len(mesher.greedy.faces) :
          LET f == mesher.greedy.faces[n]
          IN  /\ f.size[1] > 1
              /\ \E p \in LocalPositions :
                    /\ p \notin CoveredVoxels(f)
                    /\ face_of(BlockAt(p), f.dir) # None
                    /\ face_of(BlockAt(p), f.dir) # Some(f.texture_index)
                    /\ CulledVisible(p, f.dir)

\* the quads of a mesh logged for voxel p (chunk-local) and direction dir
QuadsAt(mesh, p, dir) ==
    {n \in 1 .. Len(mesh.faces) :
        /\ mesh.faces[n].dir = dir
        /\ [k \in 1 .. 3 |-> mesh.faces[n].origin[k] - mesher.translation[k]] = p}

\* C12: mesh_culled emits exactly one quad, of size 1x1 and with the face's
\* texture, for every (voxel, direction) whose face is present and visible by
\* the culled rule, and no other quad
C12_CulledEmitsExactlyVisibleFaces ==
    MeshDone =>
        /\ \A n \in 1 .. Len(mesher.culled.faces) :
              /\ mesher.culled.faces[n].size = <<1, 1>>
              /\ \E p \in LocalPositions : n \in QuadsAt(mesher.culled, p, mesher.culled.faces[n].dir)
        /\ \A p \in LocalPositions, d \in DirSet :
              IF face_of(BlockAt(p), d) # None /\ CulledVisible(p, d)
                  THEN /\ Cardinality(QuadsAt(mesher.culled, p, d)) = 1
                       /\ \A n \in QuadsAt(mesher.culled, p, d) :
                             Some(mesher.culled.faces[n].texture_index) = face_of(BlockAt(p), d)
                  ELSE QuadsAt(mesher.culled, p, d) = {}

\* a finished culled mesh with an emitted interior face, an occluded face and
\* a present face in every direction on some boundary
C12_Witness ==
    /\ MeshDone
    /\ \E p \in LocalPositions, d \in DirSet :
          /\ face_of(BlockAt(p), d) # None /\ ~CulledVisible(p, d)
          /\ QuadsAt(mesher.culled, p, d) = {}
    /\ \E p \in LocalPositions, d \in DirSet :
          /\ InChunk([k \in 1 .. 3 |-> p[k] + DirVector(d)[k]])
          /\ QuadsAt(mesher.culled, p, d) # {}
    /\ \E p \in LocalPositions, d \in DirSet :
          BlockAt(p) # BLOCK_AIR /\ face_of(BlockAt(p), d) = None

\* voxel p lies on the boundary plane of the chunk on the side of dir
OnBoundary(p, dir) == ~InChunk([k \in 1 .. 3 |-> p[k] + DirVector(dir)[k]])

\* C13: no cross-chunk culling: in both generators every voxel on the D-side
\* boundary plane whose block has a face in direction D is covered by an
\* emitted quad of direction D, whatever the rest of the block array holds
C13_BoundaryFacesAlwaysCovered ==
    MeshDone =>
        \A d \in DirSet, p \in LocalPositions :
            (OnBoundary(p, d) /\ face_of(BlockAt(p), d) # None) =>
                /\ \E n \in 1 .. Len(mesher.greedy.faces) :
                      mesher.greedy.faces[n].dir = d /\ p \in CoveredVoxels(mesher.greedy.faces[n])
                /\ \E n \in 1 .. Len(mesher.culled.faces) :
                      mesher.culled.faces[n].dir = d /\ p \in CoveredVoxels(mesher.culled.faces[n])

\* a finished pair of meshes of a chunk whose six boundary planes are all
\* fully faced, so a neighbouring chunk could hide every boundary face
C13_Witness ==
    /\ MeshDone
    /\ \A d \in DirSet, p \in LocalPositions :
          OnBoundary(p, d) => face_of(BlockAt(p), d) # None
    /\ Len(mesher.greedy.faces) >= Len(FaceDirs)

\* the index pattern of one quad: two triangles over its four vertices
QuadPattern == <<0, 1, 2, 2, 3, 0>>

\* a mesh of k quads has 4k vertices and 6k indices, quad q (0-based) holds
\* the indices 4q + [0,1,2,2,3,0], and every index is below the vertex count
WellIndexed(mesh) ==
    LET k == Len(mesh.faces)
    IN  /\ Len(mesh.vertices) = 4 * k
        /\ Len(mesh.indices) = 6 * k
        /\ \A q \in 0 .. (k - 1), i \in 1 .. 6 :
              mesh.indices[6 * q + i] = 4 * q + QuadPattern[i]
        /\ \A j \in 1 .. Len(mesh.indices) : mesh.indices[j] < Len(mesh.vertices)

\* C14: at every point of a mesh_culled or mesh_greedy call the mesh has 4k
\* vertices and 6k indices for its k quads, the k-th quad contributes the
\* indices 4k + [0,1,2,2,3,0], and every index is below the vertex count
C14_QuadIndexLayout ==
    mesher.pc # "idle" => WellIndexed(mesher.greedy) /\ WellIndexed(mesher.culled)

\* a culled call in progress that has emitted unit quads of two directions,
\* the second with indices [4,5,6,6,7,4], after a greedy call of several quads
C14_Witness ==
    /\ mesher.pc = "culled"
    /\ \E n \in 2 .. Len(mesher.culled.faces) :
          mesher.culled.faces[n].dir # mesher.culled.faces[1].dir
    /\ SubSeq(mesher.culled.indices, 7, 12) = <<4, 5, 6, 6, 7, 4>>
    /\ Len(mesher.greedy.faces) >= 2

\* C15: for a block array consisting entirely of air, mesh_greedy and
\* mesh_culled run to their return and their meshes have no vertex and no index
C15_AirMeshIsEmpty ==
    (\A p \in LocalPositions : BlockAt(p) = 0) =>
        /\ ~panicked
        /\ mesher.pc \in {"greedy", "culled", "done"}
        /\ mesher.greedy.vertices = <<>> /\ mesher.greedy.indices = <<>>
        /\ mesher.culled.vertices = <<>> /\ mesher.culled.indices = <<>>

\* both generators have returned on an all-air block array
C15_Witness ==
    /\ MeshDone
    /\ \A p \in LocalPositions : BlockAt(p) = 0
    /\ Len(mesher.greedy.faces) = 0 /\ Len(mesher.culled.faces) = 0

\* the number of quads of a mesh in direction dir
QuadCount(mesh, dir) ==
    Cardinality({n \in 1 .. Len(mesh.faces) : mesh.faces[n].dir = dir})

\* C16: mesh_greedy emits at most as many quads as mesh_culled on the same
\* block array, in every direction and in total
C16_GreedyNeverMoreQuads ==
    MeshDone =>
        /\ \A d \in DirSet : QuadCount(mesher.greedy, d) <= QuadCount(mesher.culled, d)
        /\ Len(mesher.greedy.faces) <= Len(mesher.culled.faces)

\* finished meshes where greedy saved quads in one direction and none in
\* another direction that has quads
C16_Witness ==
    /\ MeshDone
    /\ \E d \in DirSet : QuadCount(mesher.greedy, d) < QuadCount(mesher.culled, d)
    /\ \E d \in DirSet :
          /\ QuadCount(mesher.greedy, d) = QuadCount(mesher.culled, d)
          /\ QuadCount(mesher.greedy, d) >= 2

\* C17: the visibility graph stored by Chunk::new marks direction D opaque
\* iff every voxel of the D-side boundary plane has a face in direction D; so
\* a chunk filled with one block that has all six faces is opaque in all six
\* directions and an all-air chunk in none
C17_GraphOpaqueIffBoundaryFaced ==
    mesher.finished = None =>
    /\ \A d \in DirSet :
          chunk.visibility_graph[d] <=>
              \A p \in LocalPositions : OnBoundary(p, d) => face_of(BlockAt(p), d) # None
    /\ \A b \in BlockIds :
          (\A p \in LocalPositions : BlockAt(p) = b) =>
              /\ (\A d \in DirSet : face_of(b, d) # None) =>
                    \A d \in DirSet : chunk.visibility_graph[d]
              /\ b = 0 => \A d \in DirSet : ~chunk.visibility_graph[d]

\* a chunk built from a block array with an air cell and a solid cell whose
\* stored graph is opaque in some directions and not in others
C17_Witness ==
    /\ \E d \in DirSet : chunk.visibility_graph[d]
    /\ \E d \in DirSet : ~chunk.visibility_graph[d]
    /\ \E p \in LocalPositions : BlockAt(p) = 0
    /\ \E p \in LocalPositions : BlockAt(p) = 1

\* the cell index read at flattened iteration k of add_visible_faces
CulledSweepIndex(dir, k) ==
    uvec3_to_chunk_index(rotate_uvec3(dir,
        <<k \div (CHUNK_SIZE * CHUNK_SIZE), (k \div CHUNK_SIZE) % CHUNK_SIZE,
          IF NEGATIVE(dir) THEN k % CHUNK_SIZE ELSE (CHUNK_SIZE - 1) - (k % CHUNK_SIZE)>>))

\* the cell index of iteration (layer_index, original_v, original_u) of
\* add_greedy_merged_faces
GreedySweepIndex(dir, layer_index, original_v, original_u) ==
    uvec3_to_chunk_index(rotate_uvec3(dir,
        <<original_u, original_v, layer_pos_of(dir, layer_index)>>))

\* f maps the finite set S one-to-one onto the cell indices 0 .. CHUNK_SIZE^3 - 1
\* (as many arguments as indices, and every index is the image of one)
OntoCellsOnce(S, f(_)) ==
    /\ Cardinality(S) = CHUNK_SIZE * CHUNK_SIZE * CHUNK_SIZE
    /\ {f(a) : a \in S} = 0 .. (CHUNK_SIZE * CHUNK_SIZE * CHUNK_SIZE - 1)

\* C19: the linear index of (x, y, z) is x + CHUNK_SIZE*y + CHUNK_SIZE^2*z, a
\* bijection from the local positions onto the cell indices; for each of the
\* six directions the sweep a generator runs visits every cell index exactly
\* once (stated when the sweep of a direction starts), and the cell a running
\* mesh_greedy is at indexes the block array in range
C19_IndexBijectionAndSweeps ==
    /\ mesher.pc = "culled" =>
          /\ \A x \in Coords, y \in Coords, z \in Coords :
                uvec3_to_chunk_index(<<x, y, z>>)
                    = x + CHUNK_SIZE * y + CHUNK_SIZE * CHUNK_SIZE * z
          /\ OntoCellsOnce(LocalPositions, uvec3_to_chunk_index)
          /\ LET at(k) == CulledSweepIndex(FaceDirs[mesher.dir], k)
             IN  OntoCellsOnce(0 .. (CHUNK_SIZE * CHUNK_SIZE * CHUNK_SIZE - 1), at)
    /\ mesher.pc = "greedy" =>
          /\ (mesher.layer_index = 0 /\ mesher.original_v = 0 /\ mesher.original_u = 0) =>
                /\ \A x \in Coords, y \in Coords, z \in Coords :
                      uvec3_to_chunk_index(<<x, y, z>>)
                          = x + CHUNK_SIZE * y + CHUNK_SIZE * CHUNK_SIZE * z
                /\ OntoCellsOnce(LocalPositions, uvec3_to_chunk_index)
                /\ LET at(c) == GreedySweepIndex(FaceDirs[mesher.dir], c[1], c[2], c[3])
                   IN  OntoCellsOnce(Coords \X Coords \X Coords, at)
          /\ GreedySweepIndex(FaceDirs[mesher.dir], mesher.layer_index,
                              mesher.original_v, mesher.original_u) \in DOMAIN chunk.blocks

\* mesh_greedy at the last cell of the last layer of a direction whose axes
\* are permuted, on a block array that has produced quads
C19_Witness ==
    /\ mesher.pc = "greedy"
    /\ FaceDirs[mesher.dir] = "NegY"
    /\ mesher.layer_index = CHUNK_SIZE - 1
    /\ mesher.original_v = CHUNK_SIZE - 1 /\ mesher.original_u = CHUNK_SIZE - 1
    /\ GreedySweepIndex("NegY", mesher.layer_index, mesher.original_v, mesher.original_u)
          = (CHUNK_SIZE - 1) * (1 + CHUNK_SIZE + CHUNK_SIZE * CHUNK_SIZE)
    /\ Len(mesher.greedy.faces) >= 2

C21_ReadersLeaveChunkAlone ==
    [][/\ chunk'.blocks = chunk.blocks
       /\ chunk'.pos = chunk.pos
       /\ chunk'.visibility_graph = chunk.visibility_graph
       /\ ray' # ray => mesher' = mesher
       /\ mesher' # mesher => ray' = ray]_vars

\* both calls have returned after running interleaved on a chunk with a solid
\* voxel: the ray hit it and both meshes hold its faces
C21_Witness ==
    /\ RayDone /\ ray.result # None /\ Len(ray.sampled) >= 2
    /\ MeshDone /\ Len(mesher.greedy.faces) >= 3 /\ Len(mesher.culled.faces) >= 3
    /\ \E p \in LocalPositions : BlockAt(p) # 0

\* the voxel at tangent coordinates (u, v) of the layer at depth along dir
LayerVoxel(dir, depth, u, v) ==
    [k \in 1 .. 3 |->
        u * TangentU(dir)[k] + v * TangentV(dir)[k]
            + depth * DirVector(dir)[k] * DirVector(dir)[k]]

\* the depth of the layer_index-th layer mesh_greedy sweeps for dir: from the
\* side dir faces inwards
SweepDepth(dir, layer_index) ==
    IF \E k \in 1 .. 3 : DirVector(dir)[k] > 0
        THEN (CHUNK_SIZE - 1) - layer_index
        ELSE layer_index

\* C22: when mesh_greedy has finished the sweep of a layer of a direction,
\* visible[(u, v)] is true exactly when the block at (u, v) of that layer has
\* no face in the opposite direction, for every position of the layer
C22_VisibleAfterLayerSweep ==
    (/\ mesher.pc # "idle" /\ mesher.finished # None
     /\ mesher.original_u = 0 /\ mesher.original_v = 0) =>
        LET f == mesher.finished[1]
            d == FaceDirs[f.dir]
        IN  \A u \in Coords, v \in Coords :
                f.visible[v * CHUNK_SIZE + u] <=>
                    face_of(BlockAt(LayerVoxel(d, SweepDepth(d, f.layer_index), u, v)),
                            OppositeDir(d)) = None

\* a finished layer left with visible and hidden entries, the last quad
\* emitted being a merged quad of that layer's direction
C22_Witness ==
    /\ mesher.pc = "greedy" /\ mesher.finished # None
    /\ LET f == mesher.finished[1]
       IN  /\ \E i \in DOMAIN f.visible : f.visible[i]
           /\ \E i \in DOMAIN f.visible : ~f.visible[i]
           /\ Len(mesher.greedy.faces) >= 1
           /\ LET q == mesher.greedy.faces[Len(mesher.greedy.faces)]
              IN  /\ q.dir = FaceDirs[f.dir]
                  /\ q.size[1] + q.size[2] >= 3

RECURSIVE AreaSum(_, _, _)

\* the summed area (width * height) of the first n quads of a mesh that face dir
AreaSum(mesh, dir, n) ==
    IF n = 0
        THEN 0
        ELSE AreaSum(mesh, dir, n - 1)
                 + (IF mesh.faces[n].dir = dir
                        THEN mesh.faces[n].size[1] * mesh.faces[n].size[2]
                        ELSE 0)

\* C23: the quads mesh_greedy emits for one direction are pairwise disjoint,
\* and their summed area equals the number of unit quads mesh_culled emits
\* for that direction, also for blocks with a face in the direction and none
\* in the opposite one
C23_GreedyQuadsDisjoint ==
    MeshDone =>
        /\ \A n \in 1 .. Len(mesher.greedy.faces), m \in 1 .. Len(mesher.greedy.faces) :
              (n # m /\ mesher.greedy.faces[n].dir = mesher.greedy.faces[m].dir) =>
                  CoveredVoxels(mesher.greedy.faces[n])
                      \cap CoveredVoxels(mesher.greedy.faces[m]) = {}
        /\ \A d \in DirSet :
              AreaSum(mesher.greedy, d, Len(mesher.greedy.faces)) = QuadCount(mesher.culled, d)

\* the step emits a quad from mesh_greedy
EmitsGreedyQuad ==
    /\ mesher.pc = "greedy"
    /\ Len(mesher'.greedy.faces) = Len(mesher.greedy.faces) + 1

\* the quad mesh_greedy emitted last, after a step
LastGreedyQuad == mesher'.greedy.faces[Len(mesher'.greedy.faces)]

\* C24: growth along V is all-or-nothing: the step that emits a quad of height
\* h from origin row v leaves already_merged and visible of every row from
\* v + h on as they were, every covered cell carries the quad's face, and the
\* quad is a full rectangle inside the layer (u + width and v + height are at
\* most CHUNK_SIZE, width and height at least 1)
C24_RowGrowthAllOrNothing ==
    [][EmitsGreedyQuad =>
          LET q == LastGreedyQuad
              v_end == mesher.original_v + q.size[2]
          IN  /\ q.size[1] >= 1 /\ q.size[2] >= 1
              /\ mesher.original_u + q.size[1] <= CHUNK_SIZE
              /\ v_end <= CHUNK_SIZE
              /\ \A p \in CoveredVoxels(q) :
                    InChunk(p) /\ face_of(BlockAt(p), q.dir) = Some(q.texture_index)
              /\ \A u \in Coords, v \in Coords :
                    v >= v_end =>
                        /\ mesher'.already_merged[v * CHUNK_SIZE + u]
                              = mesher.already_merged[v * CHUNK_SIZE + u]
                        /\ mesher'.visible[v * CHUNK_SIZE + u]
                              = mesher.visible[v * CHUNK_SIZE + u]]_vars

\* a quad two cells wide was just emitted whose growth along V stopped
\* at a row that could take the first cell but not the second
C24_Witness ==
    /\ mesher.pc = "greedy" /\ Len(mesher.greedy.faces) >= 1
    /\ mesher.original_u = 1 /\ mesher.original_v = 0
    /\ LET q == mesher.greedy.faces[Len(mesher.greedy.faces)]
           d == q.dir
           depth == SweepDepth(d, mesher.layer_index)
       IN  /\ d = FaceDirs[mesher.dir]
           /\ q.size = <<2, 1>>
           /\ LayerVoxel(d, depth, 0, 0) \in CoveredVoxels(q)
           /\ face_of(BlockAt(LayerVoxel(d, depth, 0, 1)), d) = Some(q.texture_index)
           /\ face_of(BlockAt(LayerVoxel(d, depth, 1, 1)), d) # Some(q.texture_index)
           /\ CulledVisible(LayerVoxel(d, depth, 0, 1), d)

\* before the step, cell (u, v) of the layer being swept cannot extend a quad
\* of direction dir and texture tex: its face differs or is absent, it is
\* occluded, or a quad emitted earlier covers it
StopsGrowth(dir, tex, u, v) ==
    LET p == LayerVoxel(dir, SweepDepth(dir, mesher.layer_index), u, v)
    IN  \/ face_of(BlockAt(p), dir) # Some(tex)
        \/ ~CulledVisible(p, dir)
        \/ \E n \in 1 .. Len(mesher.greedy.faces) :
              mesher.greedy.faces[n].dir = dir /\ p \in CoveredVoxels(mesher.greedy.faces[n])

\* C25: every quad mesh_greedy emits is maximal in scan order: its width ends
\* at the chunk edge or at a cell of the origin row whose face differs or is
\* absent, that is occluded or already covered; its height ends at the chunk
\* edge or at a row with such a cell across the width
C25_QuadsMaximalInScanOrder ==
    [][EmitsGreedyQuad =>
          LET q == LastGreedyQuad
              u_end == mesher.original_u + q.size[1]
              v_end == mesher.original_v + q.size[2]
          IN  /\ \/ u_end = CHUNK_SIZE
                 \/ u_end < CHUNK_SIZE
                      /\ StopsGrowth(q.dir, q.texture_index, u_end, mesher.original_v)
              /\ \/ v_end = CHUNK_SIZE
                 \/ v_end < CHUNK_SIZE
                      /\ \E u \in mesher.original_u .. (u_end - 1) :
                            StopsGrowth(q.dir, q.texture_index, u, v_end)]_vars

\* a quad one cell wide and two tall was just emitted: its width ended at a
\* visible cell with another texture, its height at the chunk edge
C25_Witness ==
    /\ mesher.pc = "greedy" /\ Len(mesher.greedy.faces) >= 1
    /\ mesher.original_u = 1 /\ mesher.original_v = 0
    /\ LET q == mesher.greedy.faces[Len(mesher.greedy.faces)]
           d == q.dir
           depth == SweepDepth(d, mesher.layer_index)
       IN  /\ d = FaceDirs[mesher.dir]
           /\ q.size = <<1, CHUNK_SIZE>>
           /\ LayerVoxel(d, depth, 0, 0) \in CoveredVoxels(q)
           /\ face_of(BlockAt(LayerVoxel(d, depth, 1, 0)), d) # None
           /\ face_of(BlockAt(LayerVoxel(d, depth, 1, 0)), d) # Some(q.texture_index)
           /\ CulledVisible(LayerVoxel(d, depth, 1, 0), d)

Cross(a, b) ==
    <<a[2] * b[3] - a[3] * b[2], a[3] * b[1] - a[1] * b[3], a[1] * b[2] - a[2] * b[1]>>

\* the corners of the w-by-h rectangle along the tangent axes of dir, in the
\* plane at depth offset 1 for a positive direction and 0 for a negative one
RectangleCorners(dir, w, h) ==
    {[k \in 1 .. 3 |->
         a * w * TangentU(dir)[k] + b * h * TangentV(dir)[k]
             + (IF DirVector(dir)[k] > 0 THEN 1 ELSE 0)] :
        a \in {0, 1}, b \in {0, 1}}

\* four offsets are the corners of that rectangle, wound so that
\* (v1 - v0) x (v2 - v1) points in direction dir
WoundOutward(dir, w, h, vs) ==
    /\ Len(vs) = 4
    /\ {vs[i] : i \in 1 .. 4} = RectangleCorners(dir, w, h)
    /\ Cross(VecSub(vs[2], vs[1]), VecSub(vs[3], vs[2]))
          = [k \in 1 .. 3 |-> w * h * DirVector(dir)[k]]
    /\ Cross(VecSub(vs[3], vs[2]), VecSub(vs[4], vs[3]))
          = [k \in 1 .. 3 |-> w * h * DirVector(dir)[k]]

\* the offsets from its origin of the four vertices of quad n of a mesh
QuadOffsets(mesh, n) ==
    [i \in 1 .. 4 |-> VecSub(mesh.vertices[4 * (n - 1) + i].position, mesh.faces[n].origin)]

\* C26: for each of the six directions and every quad size (w, h), the four
\* vertex offsets are the corners of the w-by-h rectangle along the
\* direction's tangent axes (the images of the U and V unit vectors under its
\* axis permutation) at depth offset 1 for positive and 0 for negative
\* directions, wound so that (v1 - v0) x (v2 - v1) points outward; so are the
\* vertices of every quad of the meshes the generators return
C26_VerticesWoundOutward ==
    MeshDone =>
    /\ \A d \in DirSet :
          /\ TangentU(d) = rotate_uvec3(d, <<1, 0, 0>>)
          /\ TangentV(d) = rotate_uvec3(d, <<0, 1, 0>>)
          /\ \A w \in 1 .. CHUNK_SIZE, h \in 1 .. CHUNK_SIZE :
                WoundOutward(d, w, h, FaceDir_vertices(d, <<w, h>>))
    /\ \A n \in 1 .. Len(mesher.greedy.faces) :
          WoundOutward(mesher.greedy.faces[n].dir, mesher.greedy.faces[n].size[1],
                       mesher.greedy.faces[n].size[2], QuadOffsets(mesher.greedy, n))
    /\ \A n \in 1 .. Len(mesher.culled.faces) :
          WoundOutward(mesher.culled.faces[n].dir, 1, 1, QuadOffsets(mesher.culled, n))

\* finished meshes with a greedy quad wider than tall in a negative
\* direction and one taller than wide in a Y direction
C26_Witness ==
    /\ MeshDone
    /\ \E n \in 1 .. Len(mesher.greedy.faces) :
          /\ mesher.greedy.faces[n].dir \in {"NegX", "NegZ"}
          /\ mesher.greedy.faces[n].size[1] > mesher.greedy.faces[n].size[2]
    /\ \E n \in 1 .. Len(mesher.greedy.faces) :
          /\ mesher.greedy.faces[n].dir \in {"PosY", "NegY"}
          /\ mesher.greedy.faces[n].size[1] < mesher.greedy.faces[n].size[2]
    /\ Len(mesher.culled.faces) >= Len(FaceDirs)

\* C3: after Chunk::new and any sequence of set_block calls, the cached
\* visibility graph equals VisibilityGraph::compute of the current blocks
C3_VisibilityGraphNeverStale ==
    visibility_graph(chunk) = VisibilityGraph_compute(chunk.blocks)

====
